---- MODULE Spec2Model ----
(***************************************************************************)
(* A model of ccl_vhdx (src/module/ccl_vhdx/ccl_vhdx.py) and of the chain  *)
(* dump utility (src/utilities/vhdx_dump_chain.py).                        *)
(*                                                                         *)
(* Scale.  Every byte quantity of the program is a multiple of 1 MiB       *)
(* (1 << 20) or of the logical sector size.  The model keeps the program's *)
(* arithmetic and scales the byte: one MiB is MiB bytes, so 1 << 23 is     *)
(* 8 * MiB and MAX_INFERRED_SIZE (0x8000000000) is 524288 * MiB.  The bit  *)
(* position 20 of the BAT entry encoding is not a byte quantity and keeps  *)
(* its value.                                                              *)
(*                                                                         *)
(* A file is seen through two views: `words`, the 8-byte little-endian     *)
(* words from the start of the BAT region to the end of the file, and the  *)
(* bytes at absolute offsets 0 .. file_len - 1 (ByteAt).                   *)
(***************************************************************************)
EXTENDS Integers, Sequences, FiniteSets, TLC

VARIABLES
    disks,      \* the opened containers (VhdxFile objects), a sequence
    cache,      \* cache[i]: disks[i]._sector_bitmap_cache, chunk -> page
    ret,        \* the last public call on a container and its outcome
    it,         \* the iter_bat_payload_entries generator being consumed
    chain,      \* vhdx_dump_chain.main: the sector loop's progress
    opn,        \* VhdxFile.__init__: its arguments and its outcome
    thr,        \* threads inside is_sector_allocated on disks[1]
    rtp         \* a direct RegionTable.from_stream call and its outcome

vars == <<disks, cache, ret, it, chain, opn, thr, rtp>>

(***************************************************************************)
(* Bounds of the model.                                                    *)
(***************************************************************************)
MiB == 2            \* bytes in the model's 1 << 20
MaxBlocks == 3      \* payload blocks of the largest virtual disk
MaxLayers == 3      \* containers in a chain

Min(a, b) == IF a < b THEN a ELSE b
Max(a, b) == IF a > b THEN a ELSE b

(***************************************************************************)
(* Program constants.                                                      *)
(***************************************************************************)
SectorsPerBitmap == 8 * MiB                 \* 1 << 23
MAX_INFERRED_SIZE == 524288 * MiB           \* 0x8000000000
BAT_SB_BLOCK_NOT_PRESENT == 0
BAT_SB_BLOCK_PRESENT == 6
BatPayloadBlockState == {0, 1, 2, 3, 6, 7}  \* the members of the IntEnum
BAT_PAYLOAD_BLOCK_NOT_PRESENT == 0
BAT_PAYLOAD_BLOCK_UNDEFINED == 1
BAT_PAYLOAD_BLOCK_ZERO == 2
BAT_PAYLOAD_BLOCK_UNMAPPED == 3
BAT_PAYLOAD_BLOCK_FULLY_PRESENT == 6
BAT_PAYLOAD_BLOCK_PARTIALLY_PRESENT == 7

(***************************************************************************)
(* The file.                                                               *)
(***************************************************************************)
\* The byte at absolute offset o of c's file; the content is one of three
\* patterns, so that zero and non-zero data and bitmaps with set and clear
\* bits all occur.
ByteAt(c, o) ==
    CASE c.fill = "zero" -> 0
      [] c.fill = "ones" -> 255
      [] OTHER           -> (o % 255) + 1

\* f.seek(off); f.read(cnt): the bytes present, fewer than cnt at the end
\* of the file, none past it.
FileRead(c, off, cnt) ==
    [k \in 1..Max(0, Min(cnt, c.file_len - off)) |-> ByteAt(c, off + k - 1)]

Zeros(n) == [k \in 1..n |-> 0]

\* self._empty_block and self._empty_sector
EmptyBlock(c) == Zeros(c.BlockSize)
EmptySector(c) == Zeros(c.LogicalSectorSize)

\* self._chunk_ratio
ChunkRatio(c) == (SectorsPerBitmap * c.LogicalSectorSize) \div c.BlockSize

NoEntry == [status |-> "none", state |-> -1, offset |-> -1]

\* BatEntry.from_stream on the stream positioned at 8-byte word idx of the
\* BAT view: read_uint64 fails on a short read, BatPayloadBlockState(state)
\* fails for a value that is not a member of the enum.
BatEntryFromStream(c, idx) ==
    IF idx < 0 \/ idx >= Len(c.words)
    THEN [status |-> "ShortRead", state |-> -1, offset |-> -1]
    ELSE LET block_raw == c.words[idx + 1]
             state == block_raw % 8
             file_offset_mb == block_raw \div (2 ^ 20)
         IN  IF state \in BatPayloadBlockState
             THEN [status |-> "ok", state |-> state, offset |-> file_offset_mb * MiB]
             ELSE [status |-> "InvalidEnumValue", state |-> -1, offset |-> -1]

\* A range check that tests the upper end only.
SectorOutOfRangeUpperOnly(c, sector_number) ==
    sector_number > c.VirtualDiskSize \div c.LogicalSectorSize

\* The three copies of the range check.
SectorOutOfRange(c, sector_number) ==
    sector_number > c.VirtualDiskSize \div c.LogicalSectorSize \/ sector_number < 0

\* VhdxFile._get_bat_index_for_logical_sector, past its range check
BatIndexForLogicalSector(c, sector_number) ==
    LET raw_index == (sector_number * c.LogicalSectorSize) \div c.BlockSize
    IN  raw_index + (raw_index \div ChunkRatio(c))

\* VhdxFile.get_bat_entry_for_logical_sector
GetBatEntryForLogicalSector(c, sector_number) ==
    IF SectorOutOfRange(c, sector_number)
    THEN [status |-> "OutOfRange", entry |-> NoEntry, batReads |-> {}]
    ELSE LET idx == BatIndexForLogicalSector(c, sector_number)
             e == BatEntryFromStream(c, idx)
         IN  [status |-> e.status, entry |-> e, batReads |-> {idx}]

\* get_block without the offset test: the three states always give zeros.
GetBlockByStateOnly(c, bat_entry) ==
    IF bat_entry.state \in {BAT_PAYLOAD_BLOCK_ZERO, BAT_PAYLOAD_BLOCK_NOT_PRESENT,
                            BAT_PAYLOAD_BLOCK_UNDEFINED, BAT_PAYLOAD_BLOCK_UNMAPPED}
    THEN [data |-> Zeros(c.BlockSize), shared |-> TRUE, fileReads |-> {}]
    ELSE [data |-> FileRead(c, bat_entry.offset, c.BlockSize), shared |-> FALSE,
          fileReads |-> {bat_entry.offset}]

\* VhdxFile.get_block
GetBlock(c, bat_entry) ==
    IF bat_entry.state = BAT_PAYLOAD_BLOCK_ZERO
    THEN [data |-> EmptyBlock(c), shared |-> TRUE, fileReads |-> {}]
    ELSE IF /\ bat_entry.state \in {BAT_PAYLOAD_BLOCK_NOT_PRESENT,
                                   BAT_PAYLOAD_BLOCK_UNDEFINED,
                                   BAT_PAYLOAD_BLOCK_UNMAPPED}
            /\ bat_entry.offset = 0
    THEN [data |-> EmptyBlock(c), shared |-> TRUE, fileReads |-> {}]
    ELSE [data |-> FileRead(c, bat_entry.offset, c.BlockSize), shared |-> FALSE,
          fileReads |-> {bat_entry.offset}]

(***************************************************************************)
(* The sector resolver.                                                    *)
(***************************************************************************)
NoCache == [x \in {} |-> [missing |-> TRUE, bitmap |-> <<>>]]

\* A cache that records every chunk as having no bitmap.
CachePutMissing(ch, chunk_index, page) ==
    [x \in DOMAIN ch \cup {chunk_index} |->
        IF x = chunk_index THEN [missing |-> TRUE, bitmap |-> <<>>] ELSE ch[x]]

\* A cache that holds the last chunk only.
CachePutEvicting(ch, chunk_index, page) == [x \in {chunk_index} |-> page]

\* self._sector_bitmap_cache[chunk_index] = page
CachePut(ch, chunk_index, page) ==
    [x \in DOMAIN ch \cup {chunk_index} |-> IF x = chunk_index THEN page ELSE ch[x]]

\* A chunk index that is the payload block index, not divided by the ratio.
ChunkIndexOfBlock(c, sector_number) ==
    (sector_number * c.LogicalSectorSize) \div c.BlockSize

\* is_sector_allocated, lines 628-629
ChunkIndex(c, sector_number) ==
    LET bat_index == (sector_number * c.LogicalSectorSize) \div c.BlockSize
    IN  bat_index \div ChunkRatio(c)

\* A sector-bitmap index that does not count the bitmap slots before it.
BatIndexForSectorBitmapPacked(c, chunk_index) ==
    (1 + chunk_index) * ChunkRatio(c)

\* is_sector_allocated, line 630
BatIndexForSectorBitmap(c, chunk_index) ==
    chunk_index + ((1 + chunk_index) * ChunkRatio(c))

MissingPage == [missing |-> TRUE, bitmap |-> <<>>]

\* A resolver that takes every sector-bitmap state but 0 for a present bitmap.
SectorBitmapForAnyState(c, ch, sector_number) ==
    LET chunk_index == ChunkIndex(c, sector_number)
        bat_index_for_sector_bitmap == BatIndexForSectorBitmap(c, chunk_index)
        sector_bitmap_bat_entry == BatEntryFromStream(c, bat_index_for_sector_bitmap)
        sector_bitmap ==
            [missing |-> FALSE,
             bitmap |-> FileRead(c, sector_bitmap_bat_entry.offset, SectorsPerBitmap)]
    IN  IF chunk_index \in DOMAIN ch
        THEN [status |-> "ok", page |-> ch[chunk_index], cache |-> ch,
              batReads |-> {}, fileReads |-> {}]
        ELSE IF sector_bitmap_bat_entry.status # "ok"
        THEN [status |-> sector_bitmap_bat_entry.status, page |-> MissingPage, cache |-> ch,
              batReads |-> {bat_index_for_sector_bitmap}, fileReads |-> {}]
        ELSE IF sector_bitmap_bat_entry.state = BAT_SB_BLOCK_NOT_PRESENT
        THEN [status |-> "ok", page |-> MissingPage,
              cache |-> CachePut(ch, chunk_index, MissingPage),
              batReads |-> {bat_index_for_sector_bitmap}, fileReads |-> {}]
        ELSE [status |-> "ok", page |-> sector_bitmap,
              cache |-> CachePut(ch, chunk_index, sector_bitmap),
              batReads |-> {bat_index_for_sector_bitmap},
              fileReads |-> {sector_bitmap_bat_entry.offset}]

\* is_sector_allocated, lines 632-648: the page of the sector's chunk, from
\* the cache or, on a miss, from the sector-bitmap BAT entry and the file.
SectorBitmapFor(c, ch, sector_number) ==
    LET chunk_index == ChunkIndex(c, sector_number)
        bat_index_for_sector_bitmap == BatIndexForSectorBitmap(c, chunk_index)
        sector_bitmap_bat_entry == BatEntryFromStream(c, bat_index_for_sector_bitmap)
        sector_bitmap ==
            [missing |-> FALSE,
             bitmap |-> FileRead(c, sector_bitmap_bat_entry.offset, SectorsPerBitmap)]
    IN  IF chunk_index \in DOMAIN ch
        THEN [status |-> "ok", page |-> ch[chunk_index], cache |-> ch,
              batReads |-> {}, fileReads |-> {}]
        ELSE IF sector_bitmap_bat_entry.status # "ok"
        THEN [status |-> sector_bitmap_bat_entry.status, page |-> MissingPage, cache |-> ch,
              batReads |-> {bat_index_for_sector_bitmap}, fileReads |-> {}]
        ELSE IF sector_bitmap_bat_entry.state = BAT_SB_BLOCK_NOT_PRESENT
        THEN [status |-> "ok", page |-> MissingPage,
              cache |-> CachePut(ch, chunk_index, MissingPage),
              batReads |-> {bat_index_for_sector_bitmap}, fileReads |-> {}]
        ELSE IF sector_bitmap_bat_entry.state = BAT_SB_BLOCK_PRESENT
        THEN [status |-> "ok", page |-> sector_bitmap,
              cache |-> CachePut(ch, chunk_index, sector_bitmap),
              batReads |-> {bat_index_for_sector_bitmap},
              fileReads |-> {sector_bitmap_bat_entry.offset}]
        ELSE [status |-> "InvalidBitmapState", page |-> MissingPage, cache |-> ch,
              batReads |-> {bat_index_for_sector_bitmap}, fileReads |-> {}]

\* (sector_bitmap[byte_offset] >> bit_offset) & 1 != 0
BitmapBit(bitmap, byte_offset, bit_offset) ==
    (bitmap[byte_offset + 1] \div (2 ^ bit_offset)) % 2 # 0

\* is_sector_allocated without the test of is_differencing.
IsSectorAllocatedByBitmap(c, ch, sector_number) ==
    IF SectorOutOfRange(c, sector_number)
    THEN [status |-> "OutOfRange", alloc |-> FALSE, cache |-> ch,
          batReads |-> {}, fileReads |-> {}]
    ELSE LET sb == SectorBitmapFor(c, ch, sector_number)
             index_in_sb == sector_number % SectorsPerBitmap
             byte_offset == index_in_sb \div 8
             bit_offset == index_in_sb % 8
         IN  IF sb.status # "ok"
             THEN [status |-> sb.status, alloc |-> FALSE, cache |-> sb.cache,
                   batReads |-> sb.batReads, fileReads |-> sb.fileReads]
             ELSE IF sb.page.missing
             THEN [status |-> "ok", alloc |-> FALSE, cache |-> sb.cache,
                   batReads |-> sb.batReads, fileReads |-> sb.fileReads]
             ELSE IF byte_offset >= Len(sb.page.bitmap)
             THEN [status |-> "IndexError", alloc |-> FALSE, cache |-> sb.cache,
                   batReads |-> sb.batReads, fileReads |-> sb.fileReads]
             ELSE [status |-> "ok",
                   alloc |-> BitmapBit(sb.page.bitmap, byte_offset, bit_offset),
                   cache |-> sb.cache,
                   batReads |-> sb.batReads, fileReads |-> sb.fileReads]

\* VhdxFile.is_sector_allocated: the answer and the cache it leaves.
IsSectorAllocated(c, ch, sector_number) ==
    IF SectorOutOfRange(c, sector_number)
    THEN [status |-> "OutOfRange", alloc |-> FALSE, cache |-> ch,
          batReads |-> {}, fileReads |-> {}]
    ELSE IF ~c.HasParent
    THEN [status |-> "ok", alloc |-> TRUE, cache |-> ch, batReads |-> {}, fileReads |-> {}]
    ELSE LET sb == SectorBitmapFor(c, ch, sector_number)
             index_in_sb == sector_number % SectorsPerBitmap
             byte_offset == index_in_sb \div 8
             bit_offset == index_in_sb % 8
         IN  IF sb.status # "ok"
             THEN [status |-> sb.status, alloc |-> FALSE, cache |-> sb.cache,
                   batReads |-> sb.batReads, fileReads |-> sb.fileReads]
             ELSE IF sb.page.missing
             THEN [status |-> "ok", alloc |-> FALSE, cache |-> sb.cache,
                   batReads |-> sb.batReads, fileReads |-> sb.fileReads]
             ELSE IF byte_offset >= Len(sb.page.bitmap)
             THEN [status |-> "IndexError", alloc |-> FALSE, cache |-> sb.cache,
                   batReads |-> sb.batReads, fileReads |-> sb.fileReads]
             ELSE [status |-> "ok",
                   alloc |-> BitmapBit(sb.page.bitmap, byte_offset, bit_offset),
                   cache |-> sb.cache,
                   batReads |-> sb.batReads, fileReads |-> sb.fileReads]

\* block[lo:hi] of Python: the part of the slice the sequence holds
Slice(block, lo, hi) ==
    [k \in 1..Max(0, Min(hi, Len(block)) - lo) |-> block[lo + k]]

\* get_sector, lines 665-673: the sector cut out of its block
SectorOfBlock(c, block, sector_number) ==
    LET sectors_per_block == c.BlockSize \div c.LogicalSectorSize
        sector_index_in_block == sector_number % sectors_per_block
    IN  Slice(block, sector_index_in_block * c.LogicalSectorSize,
              (1 + sector_index_in_block) * c.LogicalSectorSize)

\* get_sector without its length check
AnySector(c, sector_data) == TRUE

\* get_sector, lines 670-671
FullSector(c, sector_data) == Len(sector_data) = c.LogicalSectorSize

\* VhdxFile.get_sector
GetSector(c, ch, sector_number) ==
    IF SectorOutOfRange(c, sector_number)
    THEN [status |-> "OutOfRange", data |-> <<>>, shared |-> FALSE, cache |-> ch,
          batReads |-> {}, fileReads |-> {}]
    ELSE LET bat_entry == GetBatEntryForLogicalSector(c, sector_number)
             a == IsSectorAllocated(c, ch, sector_number)
             block == GetBlock(c, bat_entry.entry)
             sector_data == SectorOfBlock(c, block.data, sector_number)
         IN  IF bat_entry.status # "ok"
             THEN [status |-> bat_entry.status, data |-> <<>>, shared |-> FALSE,
                   cache |-> ch, batReads |-> bat_entry.batReads, fileReads |-> {}]
             ELSE IF a.status # "ok"
             THEN [status |-> a.status, data |-> <<>>, shared |-> FALSE,
                   cache |-> a.cache, batReads |-> bat_entry.batReads \cup a.batReads,
                   fileReads |-> a.fileReads]
             ELSE IF a.alloc
             THEN IF FullSector(c, sector_data)
                  THEN [status |-> "ok", data |-> sector_data, shared |-> FALSE,
                        cache |-> a.cache,
                        batReads |-> bat_entry.batReads \cup a.batReads,
                        fileReads |-> a.fileReads \cup block.fileReads]
                  ELSE [status |-> "ShortSector", data |-> <<>>, shared |-> FALSE,
                        cache |-> a.cache,
                        batReads |-> bat_entry.batReads \cup a.batReads,
                        fileReads |-> a.fileReads \cup block.fileReads]
             ELSE [status |-> "ok", data |-> EmptySector(c), shared |-> TRUE,
                   cache |-> a.cache, batReads |-> bat_entry.batReads \cup a.batReads,
                   fileReads |-> a.fileReads]

(***************************************************************************)
(* Containers the model opens.  The BAT of a container holds one raw value *)
(* in every payload slot and one in every sector-bitmap slot: a call on a  *)
(* sector reads one entry of each kind.                                    *)
(***************************************************************************)
\* The u64 of a BAT entry: state in bits 0-2, bits 3-19 reserved (junk),
\* the offset in MiB from bit 20 up.
RawEntry(state, junk, mb) == mb * (2 ^ 20) + junk * 8 + state

\* Raw index i is the sector-bitmap slot of its chunk (VHDX layout).
IsBitmapSlot(i, ratio) == i % (ratio + 1) = ratio

BatWords(payload_raw, bitmap_raw, ratio, count) ==
    [k \in 1..count |-> IF IsBitmapSlot(k - 1, ratio) THEN bitmap_raw ELSE payload_raw]

\* (LogicalSectorSize, BlockSize) pairs: ChunkRatio 2 and 8.
Geometries == {<<1, 4 * MiB>>, <<2, 2 * MiB>>}

\* (fill, file_len): full files of two patterns and one truncated file.
FileShapes == {<<"zero", 6 * MiB>>, <<"ramp", 6 * MiB>>, <<"ramp", MiB + 1>>}

States == 0..7

\* Raw BAT entries of a full differencing layout for `blocks` payload blocks.
RawCount(blocks, ratio) == ((blocks + ratio - 1) \div ratio) * (ratio + 1)

Container(g, has_parent, blocks, payload_raw, bitmap_raw, shape, word_count, mode) ==
    LET ratio == (SectorsPerBitmap * g[1]) \div g[2]
    IN  [LogicalSectorSize |-> g[1], BlockSize |-> g[2],
         VirtualDiskSize |-> blocks * g[2], HasParent |-> has_parent,
         bat_length |-> 8 * RawCount(blocks, ratio),
         words |-> BatWords(payload_raw, bitmap_raw, ratio, word_count),
         fill |-> shape[1], file_len |-> shape[2], ignore_faults |-> mode]

WholeBat(g) == RawCount(MaxBlocks, (SectorsPerBitmap * g[1]) \div g[2])

\* Non-differencing containers: every payload state, at offset 0 and not.
PlainContainers ==
    {Container(g, FALSE, MaxBlocks, RawEntry(st, 0, mb), RawEntry(0, 0, 0), sh,
               WholeBat(g), TRUE) :
        g \in Geometries, st \in States, mb \in {0, 1}, sh \in FileShapes}

\* Differencing containers: every sector-bitmap state over a present payload
\* block, and the payload states under a missing and a present bitmap.
DiffContainers ==
    {Container(g, TRUE, MaxBlocks, RawEntry(6, 0, 1), RawEntry(st, 0, 2), sh,
               WholeBat(g), TRUE) :
        g \in Geometries, st \in States, sh \in FileShapes}
    \cup
    {Container(g, TRUE, MaxBlocks, RawEntry(st, 0, 1), RawEntry(sb, 0, 2), sh,
               WholeBat(g), TRUE) :
        g \in Geometries, st \in {0, 2, 3, 4, 7}, sb \in {0, 6},
        sh \in {<<"ramp", 6 * MiB>>}}

\* Files cut inside the BAT, reserved bits set, and strict mode.
OddContainers ==
    {Container(g, hp, MaxBlocks, RawEntry(6, 1, 1), RawEntry(6, 3, 2), <<"ramp", 6 * MiB>>,
               w, FALSE) :
        g \in Geometries, hp \in BOOLEAN, w \in {0, 1, 3}}

Containers == PlainContainers \cup DiffContainers \cup OddContainers

SectorCount(c) == c.VirtualDiskSize \div c.LogicalSectorSize

\* The sectors calls are made on: both ends of the range, of the first
\* block and of the first chunk, and the sectors around them.
Sectors(c) ==
    LET n == SectorCount(c)
        spb == c.BlockSize \div c.LogicalSectorSize
    IN  {-1, 0, 1, spb - 1, spb, SectorsPerBitmap - 7, SectorsPerBitmap - 1,
         SectorsPerBitmap, n - 1, n, n + 1}

\* The BatEntry objects get_block is called on.
BatEntries ==
    {[status |-> "ok", state |-> st, offset |-> mb * MiB] :
        st \in BatPayloadBlockState, mb \in 0..1}

(***************************************************************************)
(* The public calls on a container.                                        *)
(***************************************************************************)
NoCall ==
    [op |-> "none", disk |-> 0, sector |-> 0, arg |-> NoEntry, pre |-> NoCache,
     status |-> "none", data |-> <<>>, shared |-> FALSE, alloc |-> FALSE,
     entry |-> NoEntry, batReads |-> {}, fileReads |-> {}]

IdleIter == [status |-> "idle", disk |-> 0, i |-> 0, pos |-> 0, yielded |-> <<>>,
             batReads |-> {}]
IdleChain == [status |-> "idle", sector |-> 0, emitted |-> FALSE, layer |-> 0,
              data |-> <<>>]
NoMetas == [k \in {} |-> 0]
IdleOpen == [status |-> "idle", ignore_faults |-> FALSE, fallback_metas |-> NoMetas,
             region_table |-> NoMetas, metadata |-> <<>>, metas |-> NoMetas,
             using_fallback_metas |-> FALSE, chunk_ratio |-> 0]
NoThreads == <<>>
IdleParse == [status |-> "idle", ignore_faults |-> FALSE, raw |-> <<>>,
              table_entries |-> NoMetas, read |-> 0]

CallGetSector(d, s) ==
    \E r \in {GetSector(disks[d], cache[d], s)} :
        /\ ret' = [NoCall EXCEPT !.op = "get_sector", !.disk = d, !.sector = s,
                       !.pre = cache[d], !.status = r.status, !.data = r.data,
                       !.shared = r.shared, !.batReads = r.batReads,
                       !.fileReads = r.fileReads]
        /\ cache' = [cache EXCEPT ![d] = r.cache]
        /\ UNCHANGED <<disks, it, chain, opn, thr, rtp>>

CallIsSectorAllocated(d, s) ==
    \E r \in {IsSectorAllocated(disks[d], cache[d], s)} :
        /\ ret' = [NoCall EXCEPT !.op = "is_sector_allocated", !.disk = d, !.sector = s,
                       !.pre = cache[d], !.status = r.status, !.alloc = r.alloc,
                       !.batReads = r.batReads, !.fileReads = r.fileReads]
        /\ cache' = [cache EXCEPT ![d] = r.cache]
        /\ UNCHANGED <<disks, it, chain, opn, thr, rtp>>

CallGetBatEntry(d, s) ==
    \E r \in {GetBatEntryForLogicalSector(disks[d], s)} :
        /\ ret' = [NoCall EXCEPT !.op = "get_bat_entry_for_logical_sector", !.disk = d,
                       !.sector = s, !.pre = cache[d], !.status = r.status,
                       !.entry = r.entry, !.batReads = r.batReads]
        /\ UNCHANGED <<disks, cache, it, chain, opn, thr, rtp>>

CallGetBlock(d, e) ==
    \E r \in {GetBlock(disks[d], e)} :
        /\ ret' = [NoCall EXCEPT !.op = "get_block", !.disk = d, !.arg = e,
                       !.pre = cache[d], !.status = "ok", !.data = r.data,
                       !.shared = r.shared, !.fileReads = r.fileReads]
        /\ UNCHANGED <<disks, cache, it, chain, opn, thr, rtp>>

Init ==
    /\ \E c \in Containers : disks = <<c>>
    /\ cache = <<NoCache>>
    /\ ret = NoCall
    /\ it = IdleIter
    /\ chain = IdleChain
    /\ opn = IdleOpen
    /\ thr = NoThreads
    /\ rtp = IdleParse

GetSectorStep == \E s \in Sectors(disks[1]) : CallGetSector(1, s)
IsSectorAllocatedStep == \E s \in Sectors(disks[1]) : CallIsSectorAllocated(1, s)
GetBatEntryStep == \E s \in Sectors(disks[1]) : CallGetBatEntry(1, s)
GetBlockStep == \E e \in BatEntries : CallGetBlock(1, e)

Next ==
    \/ GetSectorStep
    \/ IsSectorAllocatedStep
    \/ GetBatEntryStep
    \/ GetBlockStep

Spec == Init /\ [][Next]_vars

(***************************************************************************)
(* Properties of the calls on one container (specification Spec).          *)
(***************************************************************************)
\* The container the last call was made on.
Cur == disks[ret.disk]

\* The sector of the last call lies in [0, VirtualDiskSize/LogicalSectorSize).
InRange == 0 <= ret.sector /\ ret.sector < SectorCount(Cur)

\* The raw BAT word covering the last call's sector, when the file holds it.
HasPayloadWord == BatIndexForLogicalSector(Cur, ret.sector) < Len(Cur.words)
PayloadWord == Cur.words[BatIndexForLogicalSector(Cur, ret.sector) + 1]
BitmapWordIndex == BatIndexForSectorBitmap(Cur, ChunkIndex(Cur, ret.sector))
HasBitmapWord == BitmapWordIndex < Len(Cur.words)
BitmapWord == Cur.words[BitmapWordIndex + 1]

\* C1: whenever is_sector_allocated(s) answers false for a sector the range
\* check accepts, get_sector(s) returns the shared empty sector: it does not
\* fail and reads no payload block, whatever the payload BAT entry of s is.
C1_UnallocatedIsEmptySector ==
    (/\ ret.op = "get_sector"
     /\ ~SectorOutOfRange(Cur, ret.sector)
     /\ LET a == IsSectorAllocated(Cur, ret.pre, ret.sector)
        IN  a.status = "ok" /\ ~a.alloc)
    => (/\ ret.status = "ok"
        /\ ret.shared
        /\ ret.data = Zeros(Cur.LogicalSectorSize)
        /\ ret.fileReads \subseteq
               IsSectorAllocated(Cur, ret.pre, ret.sector).fileReads)

\* C2: every value get_sector returns for a sector in
\* [0, VirtualDiskSize/LogicalSectorSize) is exactly LogicalSectorSize bytes.
C2_SectorLength ==
    (ret.op = "get_sector" /\ InRange /\ ret.status = "ok")
    => Len(ret.data) = Cur.LogicalSectorSize

\* C2 witness: get_sector returned a sector cut from a payload block that the
\* end of the file truncates.
C2_Witness ==
    /\ ret.op = "get_sector" /\ InRange /\ ret.status = "ok" /\ ~ret.shared
    /\ \E off \in ret.fileReads :
           off < Cur.file_len /\ off + Cur.BlockSize > Cur.file_len

\* C3: get_sector, is_sector_allocated and get_bat_entry_for_logical_sector
\* fail with the out-of-range error for every s >= VirtualDiskSize /
\* LogicalSectorSize and read neither the BAT nor the file for such s.
C3_PastEndFails ==
    (/\ ret.op \in {"get_sector", "is_sector_allocated",
                    "get_bat_entry_for_logical_sector"}
     /\ ret.sector >= SectorCount(Cur))
    => (ret.status = "OutOfRange" /\ ret.batReads = {} /\ ret.fileReads = {})

\* C8: get_block gives the shared zero block for state Zero and for
\* NotPresent, Undefined or Unmapped with offset 0; in every other case it
\* returns the bytes the file holds at bat_entry.offset.
C8_GetBlock ==
    ret.op = "get_block" =>
        IF \/ ret.arg.state = 2
           \/ (ret.arg.state \in {0, 1, 3} /\ ret.arg.offset = 0)
        THEN /\ ret.shared
             /\ ret.data = Zeros(Cur.BlockSize)
             /\ ret.fileReads = {}
        ELSE /\ ~ret.shared
             /\ ret.fileReads = {ret.arg.offset}
             /\ Len(ret.data) = Max(0, Min(Cur.BlockSize, Cur.file_len - ret.arg.offset))
             /\ \A k \in 1..Len(ret.data) :
                    ret.data[k] = ByteAt(Cur, ret.arg.offset + k - 1)

\* C8 witness: get_block read the file for a NotPresent entry with a non-zero
\* offset and returned non-zero bytes.
C8_Witness ==
    /\ ret.op = "get_block" /\ ~ret.shared
    /\ ret.arg.state = 0 /\ ret.arg.offset # 0
    /\ \E k \in 1..Len(ret.data) : ret.data[k] # 0

\* C9: in a non-differencing container get_sector returns zeros for every
\* in-range sector whose payload BAT entry is NotPresent or Unmapped,
\* whatever offset the entry carries.
C9_PlainNotPresentIsZeros ==
    (/\ ret.op = "get_sector"
     /\ ~Cur.HasParent
     /\ InRange
     /\ HasPayloadWord
     /\ PayloadWord % 8 \in {0, 3})
    => (ret.status = "ok" /\ ret.data = Zeros(Cur.LogicalSectorSize))

\* C10: is_sector_allocated on a differencing container, on a cache miss:
\* sector-bitmap state 0 caches Missing and answers false; state 6 caches the
\* bytes read at the entry's offset; every other state fails the call, in
\* tolerant mode too, and leaves the cache as it was.
C10_BitmapStates ==
    (/\ ret.op = "is_sector_allocated"
     /\ Cur.HasParent
     /\ ~SectorOutOfRange(Cur, ret.sector)
     /\ ChunkIndex(Cur, ret.sector) \notin DOMAIN ret.pre
     /\ HasBitmapWord)
    => LET chunk == ChunkIndex(Cur, ret.sector)
           state == BitmapWord % 8
           offset == (BitmapWord \div (2 ^ 20)) * MiB
           now == cache[ret.disk]
       IN  CASE state = 0 ->
                   /\ ret.status = "ok" /\ ~ret.alloc
                   /\ chunk \in DOMAIN now /\ now[chunk].missing
                   /\ \A x \in DOMAIN ret.pre : x \in DOMAIN now /\ now[x] = ret.pre[x]
             [] state = 6 ->
                   /\ chunk \in DOMAIN now /\ ~now[chunk].missing
                   /\ ret.fileReads = {offset}
                   /\ \A k \in 1..Len(now[chunk].bitmap) :
                          now[chunk].bitmap[k] = ByteAt(Cur, offset + k - 1)
                   /\ Len(now[chunk].bitmap) > 0 <=> offset < Cur.file_len
             [] OTHER ->
                   /\ ret.status \notin {"ok", "none"}
                   /\ now = ret.pre

\* C10 witness: on a container opened in tolerant mode a miss on a
\* sector-bitmap entry of state 7 failed the call.
C10_Witness ==
    /\ ret.op = "is_sector_allocated" /\ Cur.HasParent /\ Cur.ignore_faults
    /\ ~SectorOutOfRange(Cur, ret.sector)
    /\ ChunkIndex(Cur, ret.sector) \notin DOMAIN ret.pre
    /\ HasBitmapWord /\ BitmapWord % 8 = 7
    /\ ret.status = "InvalidBitmapState"

\* C11: the outcome of get_sector(s) and of is_sector_allocated(s) (bytes,
\* boolean or error) after any sequence of earlier calls on the container is
\* the outcome of the same call on the container as it was opened, so it does
\* not depend on the calls made before it nor on their order.
C11_HistoryIndependent ==
    /\ ret.op = "get_sector" =>
           LET fresh == GetSector(Cur, NoCache, ret.sector)
           IN  ret.status = fresh.status /\ ret.data = fresh.data
    /\ ret.op = "is_sector_allocated" =>
           LET fresh == IsSectorAllocated(Cur, NoCache, ret.sector)
           IN  ret.status = fresh.status /\ ret.alloc = fresh.alloc

\* C11 witness: a get_sector on a differencing container that found its
\* chunk's bitmap already cached with the bit set and returned file bytes.
C11_Witness ==
    /\ ret.op = "get_sector"
    /\ Cur.HasParent
    /\ ChunkIndex(Cur, ret.sector) \in DOMAIN ret.pre
    /\ ~ret.pre[ChunkIndex(Cur, ret.sector)].missing
    /\ ret.status = "ok"
    /\ ~ret.shared
    /\ ret.data # EmptySector(Cur)

\* C20: on a non-differencing container is_sector_allocated(s) is true for
\* every in-range s, reads neither the BAT nor a bitmap and leaves the cache
\* as it found it.
C20_PlainAlwaysAllocated ==
    (ret.op = "is_sector_allocated" /\ ~Cur.HasParent /\ InRange) =>
        /\ ret.status = "ok"
        /\ ret.alloc
        /\ ret.batReads = {}
        /\ ret.fileReads = {}
        /\ cache[ret.disk] = ret.pre
        /\ cache[ret.disk] = NoCache

\* C20 witness: the answer true on a non-differencing container whose file
\* ends before its BAT.
C20_Witness ==
    /\ ret.op = "is_sector_allocated"
    /\ ~Cur.HasParent
    /\ InRange
    /\ Len(Cur.words) = 0
    /\ ret.status = "ok"
    /\ ret.alloc

\* C21: get_sector, is_sector_allocated and get_bat_entry_for_logical_sector
\* fail with the out-of-range error for a negative sector number, whatever
\* the mode the container was opened in, and leave the sector-bitmap cache
\* as it was before the call.
C21_NegativeFails ==
    (/\ ret.op \in {"get_sector", "is_sector_allocated",
                    "get_bat_entry_for_logical_sector"}
     /\ ret.sector < 0)
    => (/\ ret.status = "OutOfRange"
        /\ ret.batReads = {} /\ ret.fileReads = {}
        /\ cache[ret.disk] = ret.pre)

\* C21 witness: get_sector(-1) failed out of range on a container opened in
\* tolerant mode whose cache already held a bitmap.
C21_Witness ==
    /\ ret.op = "get_sector"
    /\ ret.sector = -1
    /\ Cur.ignore_faults
    /\ ret.status = "OutOfRange"
    /\ \E x \in DOMAIN ret.pre : ~ret.pre[x].missing
    /\ cache[ret.disk] = ret.pre

\* C22: every buffer get_block returns is exactly BlockSize bytes long; a
\* file that holds fewer than BlockSize bytes at bat_entry.offset makes the
\* call fail.
C22_BlockLength ==
    (ret.op = "get_block" /\ ret.status = "ok") => Len(ret.data) = Cur.BlockSize

\* C25: every sector bitmap the cache holds is at most 1 MiB (1 << 20
\* bytes) long: a miss reads that many bytes from the bitmap's offset.
C25_BitmapIsOneMiB ==
    \A d \in DOMAIN cache : \A x \in DOMAIN cache[d] :
        ~cache[d][x].missing => Len(cache[d][x].bitmap) <= MiB

(***************************************************************************)
(* iter_bat_payload_entries: the generator, one loop iteration a step.     *)
(*   it.i        the loop variable of the next iteration                   *)
(*   it.pos      the stream position, in 8-byte words from the BAT start   *)
(*   it.yielded  the raw BAT index of every entry yielded so far           *)
(*   it.batReads every raw BAT index read, skipped entries included        *)
(***************************************************************************)
\* line 615
RawEntryCount(c) == c.bat_length \div 8

\* line 617: the iteration first reads and drops one entry
SkipsBefore(c, i) == i > 0 /\ i % (ChunkRatio(c) + 1) = 0

\* Calling iter_bat_payload_entries() makes the generator; nothing runs yet.
IterStart(d) ==
    /\ it.status = "idle"
    /\ it' = [IdleIter EXCEPT !.status = "running", !.disk = d]
    /\ UNCHANGED <<disks, cache, ret, chain, opn, thr, rtp>>

\* next() on the generator: the loop runs to its next yield, to its end
\* (StopIteration) or to the error of a read.
IterNext ==
    /\ it.status = "running"
    /\ LET c == disks[it.disk]
           skip == SkipsBefore(c, it.i)
           skipped == BatEntryFromStream(c, it.pos)
           at == IF skip THEN it.pos + 1 ELSE it.pos
           e == BatEntryFromStream(c, at)
       IN  IF it.i >= RawEntryCount(c)
           THEN it' = [it EXCEPT !.status = "done"]
           ELSE IF skip /\ skipped.status # "ok"
           THEN it' = [it EXCEPT !.status = skipped.status,
                                 !.batReads = @ \cup {it.pos}]
           ELSE IF e.status # "ok"
           THEN it' = [it EXCEPT !.status = e.status,
                                 !.batReads = @ \cup {it.pos, at}]
           ELSE it' = [it EXCEPT !.i = @ + 1, !.pos = at + 1,
                                 !.yielded = Append(@, at),
                                 !.batReads = @ \cup {it.pos, at}]
    /\ UNCHANGED <<disks, cache, ret, chain, opn, thr, rtp>>

MaxBatEntries == 7      \* raw entries of the largest BAT region iterated

\* BAT regions of every length up to MaxBatEntries entries, a length that is
\* no multiple of 8, followed in the file by 0 or 3 more words or cut short;
\* every entry FullyPresent.
IterContainers ==
    {[Container(g, TRUE, MaxBlocks, RawEntry(6, 0, 1), RawEntry(6, 0, 2),
                <<"ramp", 6 * MiB>>, Max(0, n + extra), TRUE)
         EXCEPT !.bat_length = 8 * n + odd] :
        g \in Geometries, n \in 0..MaxBatEntries, extra \in {-1, 0, 3}, odd \in {0, 4}}

InitIter ==
    /\ \E c \in IterContainers : disks = <<c>>
    /\ cache = <<NoCache>>
    /\ ret = NoCall
    /\ it = IdleIter
    /\ chain = IdleChain
    /\ opn = IdleOpen
    /\ thr = NoThreads
    /\ rtp = IdleParse

IterStartStep == IterStart(1)

NextIter ==
    \/ IterStartStep
    \/ IterNext

SpecIter == InitIter /\ [][NextIter]_vars

\* C6: the p-th entry the iterator yields (0-based) is the BAT entry at raw
\* index p + p/ChunkRatio, the one get_bat_entry_for_logical_sector reads for
\* the first sector of payload block p, and never a sector-bitmap slot.
C6_IterYieldsPayloadSlots ==
    it.status # "idle" =>
        LET c == disks[it.disk]
        IN  \A p \in 0..(Len(it.yielded) - 1) :
                /\ it.yielded[p + 1] =
                       BatIndexForLogicalSector(c, p * (c.BlockSize \div c.LogicalSectorSize))
                /\ ~IsBitmapSlot(it.yielded[p + 1], ChunkRatio(c))

\* C7: on a file that holds its whole BAT region the iterator ends having
\* yielded exactly raw_bat_entry_count - raw_bat_entry_count / ChunkRatio
\* entries and having read no entry at or past raw index raw_bat_entry_count.
C7_IterCount ==
    (it.status \notin {"idle", "running"}
        /\ Len(disks[it.disk].words) >= RawEntryCount(disks[it.disk])) =>
        LET c == disks[it.disk]
            n == RawEntryCount(c)
        IN  /\ it.status = "done"
            /\ Len(it.yielded) = n - (n \div ChunkRatio(c))
            /\ \A idx \in it.batReads : idx < n

(***************************************************************************)
(* Every public call on one container, the iterator included               *)
(* (specification SpecCalls).                                              *)
(***************************************************************************)
\* Differencing containers over a whole file, with every sector-bitmap state.
CallContainers ==
    {c \in DiffContainers :
        c.fill = "ramp" /\ c.file_len = 6 * MiB /\ c.words[1] % 8 = 6}

InitCalls ==
    /\ \E c \in CallContainers : disks = <<c>>
    /\ cache = <<NoCache>>
    /\ ret = NoCall
    /\ it = IdleIter
    /\ chain = IdleChain
    /\ opn = IdleOpen
    /\ thr = NoThreads
    /\ rtp = IdleParse

NextCalls ==
    \/ GetSectorStep
    \/ IsSectorAllocatedStep
    \/ GetBatEntryStep
    \/ GetBlockStep
    \/ IterStartStep
    \/ IterNext

SpecCalls == InitCalls /\ [][NextCalls]_vars

\* C12: no public call changes the container's header, region table,
\* metadata or derived constants, and the sector-bitmap cache only grows: a
\* chunk in the cache before a call is in it after the call with the same
\* page.
C12_CacheOnlyGrows ==
    [][/\ disks' = disks
       /\ \A d \in DOMAIN cache :
              \A x \in DOMAIN cache[d] :
                  x \in DOMAIN cache'[d] /\ cache'[d][x] = cache[d][x]]_vars

\* C12 witness: the cache holds two chunks, the iterator has run to its end
\* or to an error, and the last call was served from the cache.
C12_Witness ==
    /\ Cardinality(DOMAIN cache[1]) = 2
    /\ it.status \notin {"idle", "running"}
    /\ ret.op = "get_sector"
    /\ ret.status = "ok"
    /\ ret.pre = cache[1]

(***************************************************************************)
(* Two threads inside is_sector_allocated on one container (specification  *)
(* SpecRace).  A step of a thread is one access to what the threads share, *)
(* the cache dict: the membership test, the lookup and the assignment are  *)
(* single dict operations; what a thread does between two of them (the     *)
(* reads of the file through its own handle, the arithmetic) touches       *)
(* nothing shared.                                                         *)
(*   thr[t].pc      where thread t stands                                  *)
(*   thr[t].missed  the membership test of line 632 was false              *)
(***************************************************************************)
IdleThread ==
    [pc |-> "idle", sector |-> 0, chunk |-> 0, entry |-> NoEntry, page |-> MissingPage,
     status |-> "none", alloc |-> FALSE, missed |-> FALSE]

\* lines 650-658: the answer read off a page
AnswerFrom(th, page) ==
    LET index_in_sb == th.sector % SectorsPerBitmap
        byte_offset == index_in_sb \div 8
        bit_offset == index_in_sb % 8
    IN  IF page.missing
        THEN [th EXCEPT !.pc = "done", !.page = page, !.status = "ok", !.alloc = FALSE]
        ELSE IF byte_offset >= Len(page.bitmap)
        THEN [th EXCEPT !.pc = "done", !.page = page, !.status = "IndexError"]
        ELSE [th EXCEPT !.pc = "done", !.page = page, !.status = "ok",
                        !.alloc = BitmapBit(page.bitmap, byte_offset, bit_offset)]

\* A store that replaces a page another thread has stored meanwhile by None.
StoreBitmapClobbering(ch, chunk_index, page) ==
    IF chunk_index \in DOMAIN ch
    THEN CachePut(ch, chunk_index, MissingPage)
    ELSE CachePut(ch, chunk_index, page)

\* line 646
StoreBitmap(ch, chunk_index, page) == CachePut(ch, chunk_index, page)

\* lines 622-630: the call is made; the range check, is_differencing and the
\* index arithmetic
RaceEnter ==
    \E t \in DOMAIN thr, s \in Sectors(disks[1]) :
        /\ thr[t].pc = "idle"
        /\ thr' = [thr EXCEPT ![t] =
                      IF SectorOutOfRange(disks[1], s)
                      THEN [@ EXCEPT !.pc = "done", !.sector = s, !.status = "OutOfRange"]
                      ELSE IF ~disks[1].HasParent
                      THEN [@ EXCEPT !.pc = "done", !.sector = s, !.status = "ok",
                                     !.alloc = TRUE]
                      ELSE [@ EXCEPT !.pc = "check", !.sector = s,
                                     !.chunk = ChunkIndex(disks[1], s)]]
        /\ UNCHANGED <<disks, cache, ret, it, chain, opn, rtp>>

\* line 632: chunk_index in self._sector_bitmap_cache
RaceCheck ==
    \E t \in DOMAIN thr :
        /\ thr[t].pc = "check"
        /\ thr' = [thr EXCEPT ![t] =
                      IF thr[t].chunk \in DOMAIN cache[1]
                      THEN [@ EXCEPT !.pc = "hit"]
                      ELSE [@ EXCEPT !.pc = "miss", !.missed = TRUE]]
        /\ UNCHANGED <<disks, cache, ret, it, chain, opn, rtp>>

\* line 633, and the answer
RaceHit ==
    \E t \in DOMAIN thr :
        /\ thr[t].pc = "hit"
        /\ thr' = [thr EXCEPT ![t] = AnswerFrom(@, cache[1][thr[t].chunk])]
        /\ UNCHANGED <<disks, cache, ret, it, chain, opn, rtp>>

\* lines 635-648: the sector-bitmap BAT entry is read and its state tested
RaceReadEntry ==
    \E t \in DOMAIN thr :
        /\ thr[t].pc = "miss"
        /\ \E e \in {BatEntryFromStream(disks[1],
                                        BatIndexForSectorBitmap(disks[1], thr[t].chunk))} :
               thr' = [thr EXCEPT ![t] =
                          IF e.status # "ok"
                          THEN [@ EXCEPT !.pc = "done", !.status = e.status]
                          ELSE IF e.state = BAT_SB_BLOCK_NOT_PRESENT
                          THEN [@ EXCEPT !.pc = "store_none", !.entry = e]
                          ELSE IF e.state = BAT_SB_BLOCK_PRESENT
                          THEN [@ EXCEPT !.pc = "store", !.entry = e,
                                         !.page = [missing |-> FALSE,
                                                   bitmap |-> FileRead(disks[1], e.offset,
                                                                       SectorsPerBitmap)]]
                          ELSE [@ EXCEPT !.pc = "done", !.status = "InvalidBitmapState"]]
        /\ UNCHANGED <<disks, cache, ret, it, chain, opn, rtp>>

\* lines 640-641, and the answer
RaceStoreNone ==
    \E t \in DOMAIN thr :
        /\ thr[t].pc = "store_none"
        /\ cache' = [cache EXCEPT ![1] = CachePut(@, thr[t].chunk, MissingPage)]
        /\ thr' = [thr EXCEPT ![t] = AnswerFrom(@, MissingPage)]
        /\ UNCHANGED <<disks, ret, it, chain, opn, rtp>>

\* line 646, and the answer
RaceStore ==
    \E t \in DOMAIN thr :
        /\ thr[t].pc = "store"
        /\ cache' = [cache EXCEPT ![1] = StoreBitmap(@, thr[t].chunk, thr[t].page)]
        /\ thr' = [thr EXCEPT ![t] = AnswerFrom(@, thr[t].page)]
        /\ UNCHANGED <<disks, ret, it, chain, opn, rtp>>

\* Differencing containers whose sector bitmaps are missing, present and of
\* an invalid state, and a non-differencing one.
RaceContainers ==
    {c \in CallContainers : c.words[ChunkRatio(c) + 1] % 8 \in {0, 6, 7}}
    \cup {c \in PlainContainers :
             c.fill = "ramp" /\ c.file_len = 6 * MiB /\ c.words[1] = RawEntry(6, 0, 1)}

InitRace ==
    /\ \E c \in RaceContainers : disks = <<c>>
    /\ cache = <<NoCache>>
    /\ ret = NoCall
    /\ it = IdleIter
    /\ chain = IdleChain
    /\ opn = IdleOpen
    /\ thr = <<IdleThread, IdleThread>>
    /\ rtp = IdleParse

NextRace ==
    \/ RaceEnter
    \/ RaceCheck
    \/ RaceHit
    \/ RaceReadEntry
    \/ RaceStoreNone
    \/ RaceStore

SpecRace == InitRace /\ [][NextRace]_vars

\* C13: however two is_sector_allocated calls interleave, each returns what
\* it returns when run alone on the container as opened, and a chunk's
\* cached page is the page a lone call caches for it.
C13_RaceSameAsSequential ==
    \A t \in DOMAIN thr :
        /\ thr[t].pc = "done" =>
               LET alone == IsSectorAllocated(disks[1], NoCache, thr[t].sector)
               IN  thr[t].status = alone.status /\ thr[t].alloc = alone.alloc
        /\ (thr[t].pc \notin {"idle", "done"} \/ thr[t].missed) =>
               (thr[t].chunk \in DOMAIN cache[1] =>
                    cache[1][thr[t].chunk] =
                        SectorBitmapFor(disks[1], NoCache, thr[t].sector).page)

\* C13 witness: both calls, on different sectors of one chunk, missed the
\* cache, both read the bitmap and stored it, and they answered differently.
C13_Witness ==
    /\ thr[1].pc = "done" /\ thr[2].pc = "done"
    /\ thr[1].missed /\ thr[2].missed
    /\ thr[1].chunk = thr[2].chunk
    /\ thr[1].sector # thr[2].sector
    /\ thr[1].status = "ok" /\ thr[2].status = "ok"
    /\ ~thr[1].page.missing /\ ~thr[2].page.missing
    /\ thr[1].alloc /\ ~thr[2].alloc
    /\ thr[1].chunk \in DOMAIN cache[1]

(***************************************************************************)
(* vhdx_dump_chain.main: the chain read, one sector of the loop a step.    *)
(***************************************************************************)
\* lines 57-61: the walk from layer i down to the base; the layer that
\* answers true, "none" below the base, or the error of a layer's call.
RECURSIVE FindAllocated(_, _, _, _)
FindAllocated(ds, chs, sector_number, i) ==
    IF i = 0
    THEN [status |-> "none", layer |-> 0, caches |-> chs]
    ELSE LET a == IsSectorAllocated(ds[i], chs[i], sector_number)
             next == [chs EXCEPT ![i] = a.cache]
         IN  IF a.status # "ok"
             THEN [status |-> a.status, layer |-> i, caches |-> next]
             ELSE IF a.alloc
             THEN [status |-> "ok", layer |-> i, caches |-> next]
             ELSE FindAllocated(ds, next, sector_number, i - 1)

\* A walk that tries the base first.
RECURSIVE FindAllocatedFromBase(_, _, _, _)
FindAllocatedFromBase(ds, chs, sector_number, i) ==
    IF i > Len(ds)
    THEN [status |-> "none", layer |-> 0, caches |-> chs]
    ELSE LET a == IsSectorAllocated(ds[i], chs[i], sector_number)
             next == [chs EXCEPT ![i] = a.cache]
         IN  IF a.status # "ok"
             THEN [status |-> a.status, layer |-> i, caches |-> next]
             ELSE IF a.alloc
             THEN [status |-> "ok", layer |-> i, caches |-> next]
             ELSE FindAllocatedFromBase(ds, next, sector_number, i + 1)

WalkFromBase(ds, chs, sector_number) == FindAllocatedFromBase(ds, chs, sector_number, 1)

\* lines 58-61: for i in range(len(virtual_disks) - 1, -1, -1)
Walk(ds, chs, sector_number) == FindAllocated(ds, chs, sector_number, Len(ds))

\* lines 33-53: the containers are open; a differencing base ends the run.
ChainStart ==
    /\ chain.status = "idle"
    /\ chain' = [IdleChain EXCEPT
                   !.status = IF disks[1].HasParent THEN "rejected" ELSE "running"]
    /\ UNCHANGED <<disks, cache, ret, it, opn, thr, rtp>>

\* lines 56-64: one sector of the loop, or the end of the loop.
ChainSector ==
    /\ chain.status = "running"
    /\ \E s \in {IF chain.emitted THEN chain.sector + 1 ELSE 0} :
         IF s >= SectorCount(disks[1])
         THEN /\ chain' = [chain EXCEPT !.status = "done"]
              /\ cache' = cache
         ELSE \E w \in {Walk(disks, cache, s)} :
              IF w.status = "none"
              THEN /\ chain' = [chain EXCEPT !.status = "UnresolvedSector", !.sector = s,
                                             !.emitted = FALSE]
                   /\ cache' = w.caches
              ELSE IF w.status # "ok"
              THEN /\ chain' = [chain EXCEPT !.status = w.status, !.sector = s,
                                             !.emitted = FALSE, !.layer = w.layer]
                   /\ cache' = w.caches
              ELSE \E g \in {GetSector(disks[w.layer], w.caches[w.layer], s)} :
                   IF g.status # "ok"
                   THEN /\ chain' = [chain EXCEPT !.status = g.status, !.sector = s,
                                                  !.emitted = FALSE, !.layer = w.layer]
                        /\ cache' = [w.caches EXCEPT ![w.layer] = g.cache]
                   ELSE /\ chain' = [chain EXCEPT !.sector = s, !.emitted = TRUE,
                                                  !.layer = w.layer, !.data = g.data]
                        /\ cache' = [w.caches EXCEPT ![w.layer] = g.cache]
    /\ UNCHANGED <<disks, ret, it, opn, thr, rtp>>

ChainGeometry == <<1, 4 * MiB>>

\* Bases: a whole non-differencing disk, and a differencing one main rejects.
Bases ==
    {Container(ChainGeometry, hp, MaxBlocks, RawEntry(6, 0, 1), RawEntry(6, 0, 2),
               <<"ramp", 6 * MiB>>, WholeBat(ChainGeometry), TRUE) : hp \in BOOLEAN}

\* Overlays: sector bitmaps missing, present (all clear or mixed) and of an
\* invalid state; an overlay shorter than the base; a non-differencing one.
Overlays ==
    {Container(ChainGeometry, TRUE, MaxBlocks, RawEntry(6, 0, 1), RawEntry(sb, 0, 2), sh,
               WholeBat(ChainGeometry), TRUE) :
        sb \in {0, 6, 7}, sh \in {<<"zero", 6 * MiB>>, <<"ramp", 6 * MiB>>}}
    \cup
    {Container(ChainGeometry, hp, MaxBlocks - hp_less, RawEntry(6, 0, 1), RawEntry(6, 0, 2),
               <<"ramp", 6 * MiB>>, WholeBat(ChainGeometry), TRUE) :
        hp \in {TRUE}, hp_less \in {1}}
    \cup
    {Container(ChainGeometry, FALSE, MaxBlocks, RawEntry(2, 0, 0), RawEntry(0, 0, 0),
               <<"ramp", 6 * MiB>>, WholeBat(ChainGeometry), TRUE)}

RECURSIVE Chains(_)
Chains(k) ==
    IF k = 1 THEN {<<b>> : b \in Bases}
    ELSE Chains(k - 1) \cup
         {Append(ch, o) : ch \in {x \in Chains(k - 1) : Len(x) = k - 1}, o \in Overlays}

InitChain ==
    /\ disks \in Chains(MaxLayers)
    /\ cache = [i \in 1..Len(disks) |-> NoCache]
    /\ ret = NoCall
    /\ it = IdleIter
    /\ chain = IdleChain
    /\ opn = IdleOpen
    /\ thr = NoThreads
    /\ rtp = IdleParse

NextChain ==
    \/ ChainStart
    \/ ChainSector

SpecChain == InitChain /\ [][NextChain]_vars

\* is_sector_allocated(s) of layer i, asked of a container that has cached
\* nothing yet.
Answers(i, s) == IsSectorAllocated(disks[i], NoCache, s)

\* The highest-indexed layer whose is_sector_allocated(s) is true.
TopAllocated(s) ==
    LET yes == {i \in 1..Len(disks) : Answers(i, s).status = "ok" /\ Answers(i, s).alloc}
    IN  CHOOSE i \in yes : \A j \in yes : j <= i

\* Some layer above layer i fails is_sector_allocated(s).
FailsAbove(i, s) == \E j \in (i + 1)..Len(disks) : Answers(j, s).status # "ok"

\* C4 as stated: over a non-differencing base every sector below the base's
\* sector count is emitted, from the highest-indexed layer whose
\* is_sector_allocated is true, and the run never fails on a sector.
C4_EverySectorServed ==
    (chain.status \notin {"idle", "rejected"}) =>
        /\ chain.status \in {"running", "done"}
        /\ chain.emitted =>
               /\ chain.sector < SectorCount(disks[1])
               /\ chain.layer = TopAllocated(chain.sector)
               /\ chain.data = GetSector(disks[chain.layer], NoCache, chain.sector).data

\* C4 amended: an emitted sector is get_sector of the highest-indexed layer
\* whose is_sector_allocated is true; the run never ends with "no disk was
\* allocated"; it stops on a sector only with the error of a call the walk
\* makes: is_sector_allocated of a layer with no allocated layer above it, or
\* get_sector of the serving layer.
C4_TopmostAllocatedServes ==
    /\ chain.status # "UnresolvedSector"
    /\ (chain.status \in {"running", "done"} /\ chain.emitted) =>
           /\ chain.sector < SectorCount(disks[1])
           /\ chain.layer = TopAllocated(chain.sector)
           /\ ~FailsAbove(chain.layer, chain.sector)
           /\ chain.data = GetSector(disks[chain.layer], NoCache, chain.sector).data
    /\ (chain.status \notin {"idle", "rejected", "running", "done"}) =>
           /\ chain.sector < SectorCount(disks[1])
           /\ \A j \in (chain.layer + 1)..Len(disks) :
                  Answers(j, chain.sector).status = "ok" /\ ~Answers(j, chain.sector).alloc
           /\ \/ Answers(chain.layer, chain.sector).status = chain.status
              \/ /\ chain.layer = TopAllocated(chain.sector)
                 /\ GetSector(disks[chain.layer], NoCache, chain.sector).status
                        = chain.status

\* C4 witness: in a chain of three the top overlay does not hold the sector
\* and the middle one serves it.
C4_Witness ==
    /\ chain.status = "running" /\ chain.emitted
    /\ Len(disks) = 3 /\ chain.layer = 2
    /\ disks[3].HasParent /\ disks[2].HasParent

(***************************************************************************)
(* VhdxFile.__init__ from the region table on (lines 527-580).             *)
(*                                                                         *)
(* A metadata region is [magic_ok, entries]: the entries of its table in   *)
(* order, each [item, short, fields]: the item ID, whether the item's data *)
(* ends before its length (read_raw fails), and the keys and values its    *)
(* parser yields.  A dict or a parsed table is a function from its keys;   *)
(* None and the empty dict, both false in Python, are the empty function.  *)
(***************************************************************************)
\* The item IDs Metadata.parse_metadata_entry dispatches on.
KnownItems == {"FileParameters", "VirtualDiskSize", "Page83Data",
               "LogicalSectorSize", "PhysicalSectorSize", "ParentLocator"}

\* d1 updated with d2 (d2 wins), as dict assignment does.
Merged(d1, d2) ==
    [k \in DOMAIN d1 \cup DOMAIN d2 |-> IF k \in DOMAIN d2 THEN d2[k] ELSE d1[k]]

\* MetadataTable.from_stream, lines 419-426: the entries from the k-th on.
RECURSIVE ParseMetadataEntries(_, _, _)
ParseMetadataEntries(entries, k, metas) ==
    IF k > Len(entries)
    THEN [status |-> "ok", metas |-> metas]
    ELSE LET entry == entries[k]
         IN  IF entry.short
             THEN [status |-> "ShortRead", metas |-> NoMetas]
             ELSE IF entry.item \notin KnownItems
             THEN [status |-> "KeyError", metas |-> NoMetas]
             ELSE IF DOMAIN entry.fields \cap DOMAIN metas # {}
             THEN [status |-> "DuplicateMetadataKeys", metas |-> NoMetas]
             ELSE ParseMetadataEntries(entries, k + 1, Merged(metas, entry.fields))

\* MetadataTable.from_stream
MetadataTableFromStream(region, ignore_faults) ==
    IF ~region.magic_ok /\ ~ignore_faults
    THEN [status |-> "InvalidMetadataMagic", metas |-> NoMetas]
    ELSE ParseMetadataEntries(region.entries, 1, NoMetas)

\* lines 551-553
PayloadBlockCount(raw_bat_entry_count, chunk_ratio) ==
    raw_bat_entry_count - (raw_bat_entry_count \div chunk_ratio)

\* lines 549-559: VirtualDiskSize guessed from the BAT size
InferredSize(region_table, metas) ==
    LET raw_bat_entry_count == region_table["BAT"].length \div 8
        chunk_ratio == (SectorsPerBitmap * metas["LogicalSectorSize"]) \div metas["BlockSize"]
    IN  PayloadBlockCount(raw_bat_entry_count, chunk_ratio) * metas["BlockSize"]

\* lines 567-580: the container built from metas
Opened(o, metas, using_fallback) ==
    IF {"LogicalSectorSize", "PhysicalSectorSize", "BlockSize"} \subseteq DOMAIN metas
    THEN [o EXCEPT !.status = "ok", !.metas = metas,
                   !.using_fallback_metas = using_fallback,
                   !.chunk_ratio = (SectorsPerBitmap * metas["LogicalSectorSize"])
                                       \div metas["BlockSize"]]
    ELSE [o EXCEPT !.status = "KeyError"]

\* lines 541-561: "Fallback if we couldn't get the metas and didn't crash out"
WithFallback(o, metas) ==
    LET copy == o.fallback_metas
    IN  IF ~(metas = NoMetas /\ o.fallback_metas # NoMetas)
        THEN Opened(o, metas, FALSE)
        ELSE IF "VirtualDiskSize" \in DOMAIN copy
        THEN Opened(o, copy, TRUE)
        ELSE IF "BAT" \notin DOMAIN o.region_table
                 \/ ~({"LogicalSectorSize", "BlockSize"} \subseteq DOMAIN copy)
        THEN [o EXCEPT !.status = "KeyError"]
        ELSE IF InferredSize(o.region_table, copy) > MAX_INFERRED_SIZE
        THEN [o EXCEPT !.status = "InferredSizeTooLarge"]
        ELSE Opened(o, Merged(copy, [k \in {"VirtualDiskSize"} |->
                                        InferredSize(o.region_table, copy)]), TRUE)

\* lines 527-580, with o holding the arguments and the file's region table
\* and metadata region
OpenFromRegionTable(o) ==
    LET parsed == MetadataTableFromStream(o.metadata, o.ignore_faults)
    IN  IF "Metadata" \in DOMAIN o.region_table
        THEN IF parsed.status # "ok"
             THEN [o EXCEPT !.status = parsed.status]
             ELSE WithFallback(o, parsed.metas)
        ELSE IF o.ignore_faults /\ o.fallback_metas # NoMetas
        THEN WithFallback(o, o.fallback_metas)
        ELSE [o EXCEPT !.status = "NoMetadata"]

\* VhdxFile(path, ignore_faults=..., fallback_metas=...)
Open(ignore_faults, fallback_metas, region_table, metadata) ==
    /\ opn.status = "idle"
    /\ opn' = OpenFromRegionTable(
                  [IdleOpen EXCEPT !.ignore_faults = ignore_faults,
                                   !.fallback_metas = fallback_metas,
                                   !.region_table = region_table,
                                   !.metadata = metadata])
    /\ UNCHANGED <<disks, cache, ret, it, chain, thr, rtp>>

Dict3(k1, v1, k2, v2, k3, v3) ==
    [k \in {k1, k2, k3} |-> IF k = k1 THEN v1 ELSE IF k = k2 THEN v2 ELSE v3]
Dict1(k1, v1) == [k \in {k1} |-> v1]

\* SENSIBLE_FALLBACK_METAS (512, 4096, 1 << 20) in the model's bytes, and
\* a fallback with 4 MiB blocks.
FallbackBase ==
    {Dict3("LogicalSectorSize", 1, "PhysicalSectorSize", 8, "BlockSize", bs) :
        bs \in {MiB, 4 * MiB}}

\* None, and the fallbacks with and without HasParent and VirtualDiskSize.
Fallbacks ==
    {NoMetas} \cup FallbackBase
    \cup {Merged(f, Dict1("HasParent", FALSE)) : f \in FallbackBase}
    \cup {Merged(Merged(f, Dict1("HasParent", TRUE)),
                 Dict1("VirtualDiskSize", 2 * f["BlockSize"])) : f \in FallbackBase}

\* BAT region lengths: empty, 8 entries, 8 entries and 4 bytes, 20 entries
\* and one whose inferred size passes MAX_INFERRED_SIZE.
BatLengths == {0, 64, 68, 160, 8 * 524288 + 64}

RegionTables ==
    {[k \in {"BAT"} |-> [offset |-> 3 * MiB, length |-> n]] : n \in BatLengths}
    \cup {[k \in {"BAT", "Metadata"} |->
              IF k = "BAT" THEN [offset |-> 3 * MiB, length |-> n]
              ELSE [offset |-> 2 * MiB, length |-> MiB]] : n \in {64}}
    \cup {[k \in {"Metadata"} |-> [offset |-> 2 * MiB, length |-> MiB]]}

Item(id, fields) == [item |-> id, short |-> FALSE, fields |-> fields]
FileParametersItem ==
    Item("FileParameters",
         Dict3("BlockSize", 2 * MiB, "LeaveBlocksAllocated", FALSE, "HasParent", FALSE))
SizeItem == Item("VirtualDiskSize", Dict1("VirtualDiskSize", 6 * MiB))
LogicalItem == Item("LogicalSectorSize", Dict1("LogicalSectorSize", 1))
PhysicalItem == Item("PhysicalSectorSize", Dict1("PhysicalSectorSize", 8))
UnknownItem == Item("Unknown", NoMetas)

\* Metadata regions: whole, with a wrong magic, empty, lacking an item, with
\* an unknown item, with an item twice, and with an item cut by the end of
\* the file.
MetadataRegions ==
    {[magic_ok |-> m, entries |-> es] :
        m \in BOOLEAN,
        es \in {<<FileParametersItem, SizeItem, LogicalItem, PhysicalItem>>,
                <<>>,
                <<FileParametersItem, LogicalItem, PhysicalItem>>,
                <<FileParametersItem, SizeItem>>,
                <<FileParametersItem, UnknownItem, SizeItem, LogicalItem, PhysicalItem>>,
                <<FileParametersItem, LogicalItem, LogicalItem, PhysicalItem>>,
                <<FileParametersItem, [SizeItem EXCEPT !.short = TRUE]>>}}

InitOpen ==
    /\ disks = <<>>
    /\ cache = <<>>
    /\ ret = NoCall
    /\ it = IdleIter
    /\ chain = IdleChain
    /\ opn = IdleOpen
    /\ thr = NoThreads
    /\ rtp = IdleParse

OpenStep ==
    \E mode \in BOOLEAN, fb \in Fallbacks, rt \in RegionTables, md \in MetadataRegions :
        Open(mode, fb, rt, md)

NextOpen == OpenStep

SpecOpen == InitOpen /\ [][NextOpen]_vars

\* The metadata region is absent from the region table, or its table fails
\* to parse.
MetadataUnusable ==
    \/ "Metadata" \notin DOMAIN opn.region_table
    \/ MetadataTableFromStream(opn.metadata, opn.ignore_faults).status # "ok"

\* C5: in tolerant mode with fallback metadata, an absent or unparsable
\* metadata region opens on the fallback: its three sizes, used_fallback_metas
\* true, and a missing VirtualDiskSize inferred from the BAT length; an absent
\* region in strict mode or without a fallback fails the open.
C5_FallbackOpen ==
    opn.status # "idle" =>
        /\ (/\ opn.ignore_faults
            /\ {"LogicalSectorSize", "PhysicalSectorSize", "BlockSize"}
                   \subseteq DOMAIN opn.fallback_metas
            /\ "BAT" \in DOMAIN opn.region_table
            /\ InferredSize(opn.region_table, opn.fallback_metas) <= MAX_INFERRED_SIZE
            /\ MetadataUnusable)
           => /\ opn.status = "ok"
              /\ \A k \in {"LogicalSectorSize", "PhysicalSectorSize", "BlockSize"} :
                     opn.metas[k] = opn.fallback_metas[k]
              /\ opn.using_fallback_metas
              /\ "VirtualDiskSize" \in DOMAIN opn.metas
              /\ "VirtualDiskSize" \notin DOMAIN opn.fallback_metas =>
                     opn.metas["VirtualDiskSize"] =
                         LET n == opn.region_table["BAT"].length \div 8
                             r == (SectorsPerBitmap * opn.fallback_metas["LogicalSectorSize"])
                                      \div opn.fallback_metas["BlockSize"]
                         IN  (n - (n \div r)) * opn.fallback_metas["BlockSize"]
        /\ (/\ "Metadata" \notin DOMAIN opn.region_table
            /\ (~opn.ignore_faults \/ opn.fallback_metas = NoMetas))
           => opn.status # "ok"

\* C26: a VirtualDiskSize inferred from the BAT size is never too small:
\* with n raw BAT entries and chunk ratio r it is at least BlockSize times
\* the number of raw indices below n that are payload slots (those not
\* congruent to r modulo r + 1).
C26_InferredSizeCoversPayload ==
    (/\ opn.status = "ok"
     /\ opn.using_fallback_metas
     /\ "VirtualDiskSize" \notin DOMAIN opn.fallback_metas)
    => LET n == opn.region_table["BAT"].length \div 8
           r == opn.chunk_ratio
       IN  opn.metas["VirtualDiskSize"] >=
               opn.metas["BlockSize"]
                   * Cardinality({i \in 0..(n - 1) : ~IsBitmapSlot(i, r)})

(***************************************************************************)
(* RegionTable.from_stream called on a 64 KiB slot (specification          *)
(* SpecRegion).                                                            *)
(*                                                                         *)
(* Scale.  The slot holds a 16-byte head, 2047 whole entries of 32 bytes   *)
(* and 16 bytes more; the model keeps that shape with RegionEntryLimit for *)
(* 2047.  A raw table is [short, magic_ok, entry_count, slot]: whether the *)
(* file ends inside the slot, whether the magic is "regi", the count field *)
(* and the whole entries the slot holds, zero-filled ones included.        *)
(***************************************************************************)
RegionEntryLimit == 3       \* stands for the 2047 of line 256

\* the parsed table: a dict from GUID to entry
NoTable == [k \in {} |-> [offset |-> 0, length |-> 0]]

\* lines 267-274: the entries from the i-th on
RECURSIVE ReadRegionEntries(_, _, _, _)
ReadRegionEntries(raw, ignore_faults, i, table_entries) ==
    IF i > raw.entry_count
    THEN [status |-> "ok", table_entries |-> table_entries, read |-> i - 1]
    ELSE IF i > Len(raw.slot)
    THEN [status |-> "ShortRead", table_entries |-> NoTable, read |-> i - 1]
    ELSE LET entry == raw.slot[i]
         IN  IF entry.guid \in DOMAIN table_entries /\ ~ignore_faults
             THEN [status |-> "DuplicateRegionKey", table_entries |-> NoTable,
                   read |-> i]
             ELSE ReadRegionEntries(raw, ignore_faults, i + 1,
                      Merged(table_entries,
                             [k \in {entry.guid} |->
                                 [offset |-> entry.offset, length |-> entry.length]]))

\* RegionTable.from_stream
RegionTableFromStream(raw, ignore_faults) ==
    IF raw.short
    THEN [status |-> "ShortRead", table_entries |-> NoTable, read |-> 0]
    ELSE IF ~raw.magic_ok
    THEN [status |-> "InvalidRegionTableMagic", table_entries |-> NoTable, read |-> 0]
    ELSE IF raw.entry_count > RegionEntryLimit /\ ~ignore_faults
    THEN [status |-> "RegionTableOverflow", table_entries |-> NoTable, read |-> 0]
    ELSE ReadRegionEntries(raw, ignore_faults, 1, NoTable)

\* RegionTable.from_stream(stream, ignore_faults=...)
ParseRegionTable(ignore_faults, raw) ==
    /\ rtp.status = "idle"
    /\ \E r \in {RegionTableFromStream(raw, ignore_faults)} :
           rtp' = [status |-> r.status, ignore_faults |-> ignore_faults, raw |-> raw,
                   table_entries |-> r.table_entries, read |-> r.read]
    /\ UNCHANGED <<disks, cache, ret, it, chain, opn, thr>>

RegionEntry(guid, offset, length) == [guid |-> guid, offset |-> offset, length |-> length]
ZeroEntry == RegionEntry("Zero", 0, 0)
BatRegion == RegionEntry("BAT", 3 * MiB, 64)
MetadataRegion == RegionEntry("Metadata", 2 * MiB, MiB)

\* The entries of a slot: the ones written, then zero-filled ones.
Slot(written) ==
    [i \in 1..RegionEntryLimit |-> IF i <= Len(written) THEN written[i] ELSE ZeroEntry]

\* What the slots hold: the two regions in either order, one of them, a
\* third region, a region at another offset or of another length, and a
\* region twice with different offsets and lengths.
SlotContents ==
    {<<BatRegion, MetadataRegion>>,
     <<MetadataRegion, BatRegion>>,
     <<BatRegion>>,
     <<BatRegion, MetadataRegion, RegionEntry("Other", 5 * MiB, MiB)>>,
     <<BatRegion, RegionEntry("Other", 2 * MiB, MiB)>>,
     <<RegionEntry("BAT", 4 * MiB, 64), MetadataRegion>>,
     <<RegionEntry("BAT", 3 * MiB, 72), MetadataRegion>>,
     <<BatRegion, MetadataRegion, RegionEntry("BAT", 4 * MiB, 160)>>,
     <<BatRegion, RegionEntry("BAT", 4 * MiB, 160)>>}

RawRegionTables ==
    {[short |-> FALSE, magic_ok |-> m, entry_count |-> n, slot |-> Slot(w)] :
        m \in BOOLEAN, n \in 0..(RegionEntryLimit + 1), w \in SlotContents}
    \cup {[short |-> TRUE, magic_ok |-> TRUE, entry_count |-> 2,
           slot |-> Slot(<<BatRegion, MetadataRegion>>)]}

InitRegion ==
    /\ disks = <<>>
    /\ cache = <<>>
    /\ ret = NoCall
    /\ it = IdleIter
    /\ chain = IdleChain
    /\ opn = IdleOpen
    /\ thr = NoThreads
    /\ rtp = IdleParse

ParseRegionTableStep ==
    \E mode \in BOOLEAN, raw \in RawRegionTables : ParseRegionTable(mode, raw)

NextRegion == ParseRegionTableStep

SpecRegion == InitRegion /\ [][NextRegion]_vars

\* The entries the count field covers, as far as the slot holds them.
Counted(raw) == SubSeq(raw.slot, 1, Min(raw.entry_count, Len(raw.slot)))

\* Two of the entries carry the same GUID.
HasDuplicate(entries) ==
    \E i, j \in DOMAIN entries : i < j /\ entries[i].guid = entries[j].guid

\* The position of the earliest entry with the GUID.
FirstOf(entries, guid) ==
    CHOOSE i \in DOMAIN entries :
        /\ entries[i].guid = guid
        /\ \A j \in DOMAIN entries : entries[j].guid = guid => i <= j

\* C17: a region table whose count field is above the limit of 2047 fails to
\* parse in strict mode and in tolerant mode parses, reading no more
\* entries than the limit.
C17_EntryCountClamped ==
    (/\ rtp.status # "idle"
     /\ ~rtp.raw.short
     /\ rtp.raw.magic_ok
     /\ rtp.raw.entry_count > RegionEntryLimit
     /\ ~HasDuplicate(rtp.raw.slot))
    => IF rtp.ignore_faults
       THEN rtp.status = "ok" /\ rtp.read <= RegionEntryLimit
       ELSE rtp.status # "ok"

\* C18: a region table with two entries of one GUID fails to parse in strict
\* mode, and in tolerant mode parses to a mapping that gives every GUID the
\* offset and length of its earliest entry.
C18_DuplicateKeepsFirst ==
    (/\ rtp.status # "idle"
     /\ ~rtp.raw.short
     /\ rtp.raw.magic_ok
     /\ rtp.raw.entry_count <= RegionEntryLimit
     /\ HasDuplicate(Counted(rtp.raw)))
    => IF rtp.ignore_faults
       THEN /\ rtp.status = "ok"
            /\ \A g \in DOMAIN rtp.table_entries :
                   LET first == Counted(rtp.raw)[FirstOf(Counted(rtp.raw), g)]
                   IN  /\ rtp.table_entries[g].offset = first.offset
                       /\ rtp.table_entries[g].length = first.length
       ELSE rtp.status # "ok"

(***************************************************************************)
(* VhdxFile.__init__ on a whole file (specification SpecFile).             *)
(*                                                                         *)
(* A file is [id, header_a, header_b, rt_a, rt_b, metadata]: the file      *)
(* identifier [short, magic_ok], the headers of the slots at 64 KiB and    *)
(* 128 KiB, each [slot, short, magic_ok, version, seq], the raw region     *)
(* tables of the slots at 192 KiB and 256 KiB, and the metadata region.    *)
(***************************************************************************)
NoHeader == [slot |-> "none", sequence_number |-> 0, version |-> 0]

\* FileIdentifier.from_stream
FileIdentifierFromStream(id, ignore_faults) ==
    IF id.short THEN "ShortRead"
    ELSE IF ~id.magic_ok /\ ~ignore_faults THEN "InvalidFileMagic"
    ELSE "ok"

\* Header.from_stream
HeaderFromStream(h, ignore_faults) ==
    IF h.short
    THEN [status |-> "ShortRead", header |-> NoHeader]
    ELSE IF ~h.magic_ok /\ ~ignore_faults
    THEN [status |-> "InvalidHeaderMagic", header |-> NoHeader]
    ELSE IF h.version # 1 /\ ~ignore_faults
    THEN [status |-> "InvalidHeaderVersion", header |-> NoHeader]
    ELSE [status |-> "ok",
          header |-> [slot |-> h.slot, sequence_number |-> h.seq, version |-> h.version]]

\* A choice of header that takes the first on equal sequence numbers.
CurrentHeaderTieFirst(header_a, header_b) ==
    IF header_a.sequence_number >= header_b.sequence_number THEN header_a ELSE header_b

\* line 507
CurrentHeader(header_a, header_b) ==
    IF header_a.sequence_number > header_b.sequence_number THEN header_a ELSE header_b

\* lines 518-520: for key in region_table_a, in the order of its entries
RECURSIVE CompareRegionTables(_, _, _, _)
CompareRegionTables(entries, i, region_table_a, region_table_b) ==
    IF i > Len(entries)
    THEN "ok"
    ELSE LET key == entries[i].guid
         IN  IF key \notin DOMAIN region_table_b
             THEN "KeyError"
             ELSE IF region_table_a[key] # region_table_b[key]
             THEN "RegionTableMismatch"
             ELSE CompareRegionTables(entries, i + 1, region_table_a, region_table_b)

\* A comparison of the two tables' sizes only.
RegionTablesSameLength(entries, region_table_a, region_table_b) ==
    IF Cardinality(DOMAIN region_table_a) # Cardinality(DOMAIN region_table_b)
    THEN "RegionTableMismatch"
    ELSE "ok"

\* lines 516-520
RegionTablesMatch(entries, region_table_a, region_table_b) ==
    IF Cardinality(DOMAIN region_table_a) # Cardinality(DOMAIN region_table_b)
    THEN "RegionTableMismatch"
    ELSE CompareRegionTables(entries, 1, region_table_a, region_table_b)

NoFile == [id |-> <<>>, header_a |-> <<>>, header_b |-> <<>>, rt_a |-> <<>>,
           rt_b |-> <<>>, metadata |-> <<>>]

IdleFileOpen ==
    [status |-> "idle", ignore_faults |-> FALSE, fallback_metas |-> NoMetas,
     region_table |-> NoMetas, metadata |-> <<>>, metas |-> NoMetas,
     using_fallback_metas |-> FALSE, chunk_ratio |-> 0,
     header |-> NoHeader, file |-> NoFile]

\* VhdxFile.__init__: the outcome of opening file
OpenedFile(ignore_faults, fallback_metas, file) ==
    LET o == [IdleFileOpen EXCEPT !.ignore_faults = ignore_faults,
                                  !.fallback_metas = fallback_metas,
                                  !.metadata = file.metadata,
                                  !.file = file]
        file_identifier == FileIdentifierFromStream(file.id, ignore_faults)
        header_a == HeaderFromStream(file.header_a, FALSE)
        header_b == HeaderFromStream(file.header_b, FALSE)
        region_table_a == RegionTableFromStream(file.rt_a, FALSE)
        region_table_b == RegionTableFromStream(file.rt_b, FALSE)
        match == RegionTablesMatch(Counted(file.rt_a), region_table_a.table_entries,
                                   region_table_b.table_entries)
    IN  IF file_identifier # "ok" THEN [o EXCEPT !.status = file_identifier]
        ELSE IF header_a.status # "ok" THEN [o EXCEPT !.status = header_a.status]
        ELSE IF header_b.status # "ok" THEN [o EXCEPT !.status = header_b.status]
        ELSE IF region_table_a.status # "ok" THEN [o EXCEPT !.status = region_table_a.status]
        ELSE IF region_table_b.status # "ok" THEN [o EXCEPT !.status = region_table_b.status]
        ELSE IF match # "ok" THEN [o EXCEPT !.status = match]
        ELSE OpenFromRegionTable(
                 [o EXCEPT !.header = CurrentHeader(header_a.header, header_b.header),
                           !.region_table = region_table_a.table_entries])

\* VhdxFile(path, ignore_faults=..., fallback_metas=...)
OpenFile(ignore_faults, fallback_metas, file) ==
    /\ opn.status = "idle"
    /\ opn' = OpenedFile(ignore_faults, fallback_metas, file)
    /\ UNCHANGED <<disks, cache, ret, it, chain, thr, rtp>>

HeaderRaw(slot, seq, magic_ok, version, short) ==
    [slot |-> slot, short |-> short, magic_ok |-> magic_ok, version |-> version,
     seq |-> seq]

\* Header pairs: every order of two sequence numbers, sound or with one
\* fault: a wrong magic or version in either copy, or a file that ends
\* inside the second.
HeaderPairs ==
    {<<HeaderRaw("A", sa, fault # "a_magic", IF fault = "a_version" THEN 2 ELSE 1, FALSE),
       HeaderRaw("B", sb, fault # "b_magic", IF fault = "b_version" THEN 0 ELSE 1,
                 fault = "b_short")>> :
        sa \in {1, 2}, sb \in {1, 2},
        fault \in {"none", "a_magic", "b_magic", "a_version", "b_version", "b_short"}}

\* A region table as a writer leaves it: the count field counts its entries.
WrittenTable(written) ==
    [short |-> FALSE, magic_ok |-> TRUE, entry_count |-> Len(written),
     slot |-> Slot(written)]

\* Region table pairs: equal, and differing in order, count, GUIDs, offset
\* or length; a copy with a GUID twice; a copy with a wrong magic or a count
\* above the limit.
RegionTablePairs ==
    {<<WrittenTable(w1), WrittenTable(w2)>> :
        w1 \in {<<BatRegion, MetadataRegion>>,
                <<BatRegion, MetadataRegion, RegionEntry("Other", 5 * MiB, MiB)>>,
                <<BatRegion, RegionEntry("Other", 2 * MiB, MiB)>>},
        w2 \in SlotContents}
    \cup {<<WrittenTable(<<BatRegion, MetadataRegion>>), r>> :
             r \in {[WrittenTable(<<BatRegion, MetadataRegion>>) EXCEPT !.magic_ok = FALSE],
                    [WrittenTable(<<BatRegion, MetadataRegion>>)
                        EXCEPT !.entry_count = RegionEntryLimit + 1]}}

WholeMetadata ==
    [magic_ok |-> TRUE,
     entries |-> <<FileParametersItem, SizeItem, LogicalItem, PhysicalItem>>]

Files ==
    {[id |-> [short |-> FALSE, magic_ok |-> m], header_a |-> hs[1], header_b |-> hs[2],
      rt_a |-> rs[1], rt_b |-> rs[2], metadata |-> WholeMetadata] :
        m \in BOOLEAN, hs \in HeaderPairs, rs \in RegionTablePairs}

InitFile ==
    /\ disks = <<>>
    /\ cache = <<>>
    /\ ret = NoCall
    /\ it = IdleIter
    /\ chain = IdleChain
    /\ opn = IdleFileOpen
    /\ thr = NoThreads
    /\ rtp = IdleParse

OpenFileStep ==
    \E mode \in BOOLEAN, fb \in {NoMetas} \cup {f \in FallbackBase : f["BlockSize"] = MiB},
       file \in Files :
        OpenFile(mode, fb, file)

NextFile == OpenFileStep

SpecFile == InitFile /\ [][NextFile]_vars

\* C14: an open that succeeds has taken header A (the slot at 64 KiB) when
\* A's sequence number is strictly greater than B's and header B (128 KiB)
\* when B's is greater or the two are equal; header() is that header.
C14_CurrentHeader ==
    opn.status = "ok" =>
        LET a == opn.file.header_a
            b == opn.file.header_b
        IN  IF a.seq > b.seq
            THEN opn.header.slot = "A" /\ opn.header.sequence_number = a.seq
            ELSE opn.header.slot = "B" /\ opn.header.sequence_number = b.seq

\* C14 witness: a file whose two headers carry the same sequence number
\* opened, and header B was taken.
C14_Witness ==
    /\ opn.status = "ok"
    /\ opn.file.header_a.seq = opn.file.header_b.seq
    /\ opn.header.slot = "B"

\* C15: an open that succeeds, in either mode, read two region tables with
\* the same set of GUIDs and, for each GUID, the same offset and length.
C15_RegionTablesAgree ==
    opn.status = "ok" =>
        LET a == Counted(opn.file.rt_a)
            b == Counted(opn.file.rt_b)
        IN  /\ {a[i].guid : i \in DOMAIN a} = {b[j].guid : j \in DOMAIN b}
            /\ \A i \in DOMAIN a, j \in DOMAIN b :
                   a[i].guid = b[j].guid =>
                       a[i].offset = b[j].offset /\ a[i].length = b[j].length

\* C15 witness: a tolerant open of a file whose region tables have the same
\* GUIDs and differ in an offset or a length failed on the mismatch.
C15_Witness ==
    /\ opn.status = "RegionTableMismatch"
    /\ opn.ignore_faults
    /\ LET a == Counted(opn.file.rt_a)
           b == Counted(opn.file.rt_b)
       IN  /\ {a[i].guid : i \in DOMAIN a} = {b[j].guid : j \in DOMAIN b}
           /\ Len(a) = Len(b)

\* C16: a wrong magic or a format version other than 1 in either header
\* does not make a tolerant open fail on that account, and makes a strict
\* open fail.
C16_TolerantHeaderFaults ==
    (/\ opn.status # "idle"
     /\ opn.file.id.magic_ok
     /\ ~opn.file.header_a.short /\ ~opn.file.header_b.short
     /\ \E h \in {opn.file.header_a, opn.file.header_b} : ~h.magic_ok \/ h.version # 1)
    => IF opn.ignore_faults
       THEN opn.status \notin {"InvalidHeaderMagic", "InvalidHeaderVersion"}
       ELSE opn.status \in {"InvalidHeaderMagic", "InvalidHeaderVersion"}

\* The entries whose item ID is one of the six well-known ones.
SkipUnknown(entries) == SelectSeq(entries, LAMBDA e : e.item \in KnownItems)

\* Two entries of a metadata table yield the same key.
DuplicateMetadataKey(entries) ==
    \E i, j \in DOMAIN entries :
        i < j /\ DOMAIN entries[i].fields \cap DOMAIN entries[j].fields # {}

\* C19: of a metadata table that is read whole, two entries with the same
\* key fail the open in both modes; an entry with an unknown item ID fails
\* it in strict mode and in tolerant mode is skipped, the open ending as it
\* does on the table without that entry.
C19_UnknownItemSkipped ==
    (/\ opn.status # "idle"
     /\ "Metadata" \in DOMAIN opn.region_table
     /\ opn.metadata.magic_ok
     /\ \A k \in DOMAIN opn.metadata.entries : ~opn.metadata.entries[k].short)
    => LET entries == opn.metadata.entries
           known == SkipUnknown(entries)
           skipped == OpenFromRegionTable(
                          [IdleOpen EXCEPT !.ignore_faults = opn.ignore_faults,
                                           !.fallback_metas = opn.fallback_metas,
                                           !.region_table = opn.region_table,
                                           !.metadata = [opn.metadata EXCEPT !.entries = known]])
       IN  /\ DuplicateMetadataKey(known) => opn.status # "ok"
           /\ known # entries /\ ~opn.ignore_faults => opn.status # "ok"
           /\ known # entries /\ opn.ignore_faults =>
                  opn.status = skipped.status /\ opn.metas = skipped.metas

(***************************************************************************)
(* is_sector_allocated and get_bat_entry_for_logical_sector on             *)
(* differencing containers of several chunks and chunk ratios              *)
(* (specification SpecBitmap).  The sector bitmap of chunk j lies at       *)
(* (2 + j) MiB, so the bitmaps of different chunks hold different bytes.   *)
(***************************************************************************)
\* Chunks of the virtual disk of these containers.
MaxChunks == 3

\* (LogicalSectorSize, BlockSize): block sizes that divide
\* (1 << 23) * LogicalSectorSize, with chunk ratios from 1 up to the whole
\* bitmap, and two that do not divide it.
BitmapGeometries ==
    {<<1, bs>> : bs \in {SectorsPerBitmap, 4 * MiB, 2 * MiB, MiB, 1, 3, 5}}

\* The BAT of a differencing disk: payload entries FullyPresent at 1 MiB and
\* the sector-bitmap entry of chunk j in state bitmap_state at (2 + j) MiB.
ChunkedBatWords(bitmap_state, ratio, count) ==
    [k \in 1..count |->
        IF IsBitmapSlot(k - 1, ratio)
        THEN RawEntry(bitmap_state, 0, 2 + ((k - 1) \div (ratio + 1)))
        ELSE RawEntry(BAT_PAYLOAD_BLOCK_FULLY_PRESENT, 0, 1)]

BitmapContainers ==
    {LET ratio == (SectorsPerBitmap * g[1]) \div g[2]
         blocks == MaxChunks * ratio
     IN  [LogicalSectorSize |-> g[1], BlockSize |-> g[2],
          VirtualDiskSize |-> blocks * g[2], HasParent |-> TRUE,
          bat_length |-> 8 * RawCount(blocks, ratio),
          words |-> ChunkedBatWords(st, ratio, RawCount(blocks, ratio)),
          fill |-> fill, file_len |-> (3 + MaxChunks) * MiB, ignore_faults |-> FALSE] :
        g \in BitmapGeometries,
        st \in {BAT_SB_BLOCK_PRESENT, BAT_SB_BLOCK_NOT_PRESENT},
        fill \in {"ramp", "ones"}}

\* The sectors calls are made on: in every chunk, the first and last bits of
\* both bytes of the bitmap's start and of its end.
BitmapSectors(c) ==
    {s \in 0..SectorCount(c) :
        s % SectorsPerBitmap \in {0, 1, 7, 8, 10, 11, SectorsPerBitmap - 2,
                                  SectorsPerBitmap - 1}}

InitBitmap ==
    /\ \E c \in BitmapContainers : disks = <<c>>
    /\ cache = <<NoCache>>
    /\ ret = NoCall
    /\ it = IdleIter
    /\ chain = IdleChain
    /\ opn = IdleOpen
    /\ thr = NoThreads
    /\ rtp = IdleParse

BitmapIsSectorAllocatedStep ==
    \E s \in BitmapSectors(disks[1]) : CallIsSectorAllocated(1, s)

BitmapGetBatEntryStep ==
    \E s \in BitmapSectors(disks[1]) : CallGetBatEntry(1, s)

NextBitmap ==
    \/ BitmapIsSectorAllocatedStep
    \/ BitmapGetBatEntryStep

SpecBitmap == InitBitmap /\ [][NextBitmap]_vars

\* BlockSize divides (1 << 23) * LogicalSectorSize.
RatioExact(c) == (SectorsPerBitmap * c.LogicalSectorSize) % c.BlockSize = 0

\* The raw BAT word in the sector-bitmap slot of the chunk of SectorsPerBitmap
\* sectors that contains s (VHDX layout), counting words from 1.
OwnBitmapSlot(c, s) == ((s \div SectorsPerBitmap) + 1) * (ChunkRatio(c) + 1)

\* Bit (s mod 2^23) mod 8 of byte (s mod 2^23) / 8 of the bitmap that the
\* file holds for the chunk containing s.
OwnBitmapBit(c, s) ==
    LET off == (c.words[OwnBitmapSlot(c, s)] \div (2 ^ 20)) * MiB
        index_in_sb == s % SectorsPerBitmap
    IN  (ByteAt(c, off + (index_in_sb \div 8)) \div (2 ^ (index_in_sb % 8))) % 2 = 1

\* C23: on a differencing container whose BlockSize divides
\* 2^23 * LogicalSectorSize the chunk index computed for sector s is
\* s / 2^23, and when that chunk's bitmap is present is_sector_allocated(s)
\* is bit (s mod 2^23) mod 8 of byte (s mod 2^23) / 8 of the bitmap of the
\* chunk that contains s.
C23_BitOfOwnChunk ==
    (/\ ret.op = "is_sector_allocated"
     /\ Cur.HasParent
     /\ RatioExact(Cur)
     /\ ~SectorOutOfRange(Cur, ret.sector))
    => /\ ChunkIndex(Cur, ret.sector) = ret.sector \div SectorsPerBitmap
       /\ (/\ OwnBitmapSlot(Cur, ret.sector) <= Len(Cur.words)
           /\ Cur.words[OwnBitmapSlot(Cur, ret.sector)] % 8 = BAT_SB_BLOCK_PRESENT)
          => /\ ret.status = "ok"
             /\ ret.alloc = OwnBitmapBit(Cur, ret.sector)

\* C23 witness: a sector of the second chunk answered true from a bit that
\* is clear at the same position of the first chunk's bitmap.
C23_Witness ==
    /\ ret.op = "is_sector_allocated"
    /\ Cur.HasParent
    /\ RatioExact(Cur)
    /\ ret.sector \div SectorsPerBitmap = 1
    /\ ret.status = "ok"
    /\ ret.alloc
    /\ ~OwnBitmapBit(Cur, ret.sector - SectorsPerBitmap)

\* C24: the raw BAT index is_sector_allocated reads for chunk c with chunk
\* ratio r is c + (1 + c) * r = (c + 1) * (r + 1) - 1; it is no raw index
\* p + p / r that the payload lookup computes for a sector of the disk or of
\* the chunk after it, and it follows directly the raw index of chunk c's
\* last payload entry.
C24_BitmapSlotIndex ==
    (ret.op = "is_sector_allocated" /\ ~SectorOutOfRange(Cur, ret.sector)) =>
        \A i \in ret.batReads :
            LET c == ChunkIndex(Cur, ret.sector)
                r == ChunkRatio(Cur)
                last == ((c + 1) * r) - 1
            IN  /\ i = ((c + 1) * (r + 1)) - 1
                /\ \A s \in 0..(SectorCount(Cur) + SectorsPerBitmap) :
                       BatIndexForLogicalSector(Cur, s) # i
                /\ i = (last + (last \div r)) + 1

\* C24 witness: a miss on the third chunk of a container whose BlockSize
\* does not divide 2^23 * LogicalSectorSize read the sector-bitmap entry.
C24_Witness ==
    /\ ret.op = "is_sector_allocated"
    /\ ~RatioExact(Cur)
    /\ ChunkRatio(Cur) > 1
    /\ ChunkIndex(Cur, ret.sector) = 2
    /\ ret.batReads # {}
    /\ ret.status = "ok"

====
